---- MODULE Spec2Model ----
(***************************************************************************)
(* Model of the three vSphere Ansible modules of this repository:          *)
(*   library/vsphere_template.py      (clone or reconcile a guest VM)      *)
(*   library/vsphere_tools.py         (check / upgrade the VMware tools)   *)
(*   library/vsphere_migrate_pool.py  (migrate a VM to a resource pool)    *)
(* One behaviour is one run of one module against a vCenter backend whose  *)
(* tasks progress concurrently with the module's polling loop.             *)
(***************************************************************************)
EXTENDS Integers, Sequences, FiniteSets, TLC

VARIABLES
    prog,          \* which module runs
    check_mode,    \* module.check_mode
    pc,            \* position of the run in the module's code
    ret,           \* where wait_for_task returns to
    params,        \* module.params
    guest,         \* backend state of the guest VM object
    observed,      \* the guest as it was when the run started
    loc,           \* local variables of main / change_guest
    tasks,         \* backend tasks, in submission order
    task,          \* index in tasks of the local variable "task" (0: none)
    rps,           \* migrate_pool: server.get_resource_pools() in iteration order
    vmPool,        \* migrate_pool: reference of the pool the VM is in
    migrations,    \* migrate_pool: calls of virtualmachine.migrate, in order
    result,        \* what the run reported (exit_json / fail_json / exception)
    run,           \* number of the current run of the play (1: the first)
    prev           \* what the previous run reported (NoResult in the first)

vars == <<prog, check_mode, pc, ret, params, guest, observed, loc, tasks, task, rps, vmPool,
          migrations, result, run, prev>>

-----------------------------------------------------------------------------
(* Bounds of the model *)

\* observed CPU counts range over 1..MaxCpus
MaxCpus == 3
\* at most MaxPools resource pools are listed under the cluster
MaxPools == 3
\* the play is run at most MaxRuns times in a row
MaxRuns == 2

(* Program constants *)

\* default of the num_cpus parameter
DefaultNumCpus == 2
\* default of the memory_mb parameter
DefaultMemoryMb == 4096
\* gather_facts: memory_gb = memory_mb / 1024
MbPerGb == 1024

-----------------------------------------------------------------------------
(* The inventory *)

None == [id |-> 0, name |-> ""]

P1 == [id |-> 1, name |-> "PoolA"]
P2 == [id |-> 2, name |-> "PoolB"]
\* a pool with the display name of P1 under another parent
P3 == [id |-> 3, name |-> "PoolA"]
F1 == [id |-> 4, name |-> "FolderA"]
F2 == [id |-> 5, name |-> "FolderB"]
F3 == [id |-> 6, name |-> "FolderA"]
D1 == [id |-> 7, name |-> "ds1"]
D2 == [id |-> 10, name |-> "ds2"]
TemplateVM == [id |-> 8, name |-> "tmpl"]
GuestVM == [id |-> 9, name |-> "vm1"]

PowerStates == {"poweredOn", "poweredOff", "suspended"}
Annotations == {"", "old notes"}
MemorySizes == {DefaultMemoryMb, DefaultMemoryMb \div 2}
CpuCounts == 1..MaxCpus

ToolsStatuses == {"guestToolsBlacklisted", "guestToolsNeedUpgrade",
                  "guestToolsNotInstalled", "guestToolsSupportedOld",
                  "guestToolsTooOld", "guestToolsCurrent",
                  "guestToolsSupportedNew", "guestToolsUnmanaged"}

\* kinds of task.info.error
Faults == {"DuplicateName", "InvalidState", "InsufficientResourcesFault"}

Min(S) == CHOOSE x \in S : \A y \in S : x <= y

GetObj_IgnoresName(view, name) == IF view = <<>> THEN None ELSE view[1]

\* get_obj: first element of the view with the given name, else None
GetObj(view, name) ==
    LET idx == {i \in 1..Len(view) : view[i].name = name}
    IN  IF idx = {} THEN None ELSE view[Min(idx)]


-----------------------------------------------------------------------------
(* Values shared by the three modules *)

Unset == "<unset>"

NoRelocateSpec == [pool |-> None, folder |-> None, datastore |-> None]
NoConfigSpec == [annotation |-> Unset, numCPUs |-> 0, memoryMB |-> 0]
NoFacts == [memory_mb |-> 0, memory_gb |-> 0, num_cpus |-> 0,
            vm_tools_status |-> Unset]
NoResult == [kind |-> "none", changed |-> FALSE, changes |-> <<>>,
             msg |-> Unset, args |-> <<>>, facts |-> NoFacts]

\* a guest name that is not in the inventory: its fields are never read
NoGuest == [exists |-> FALSE, resourcePool |-> None, parent |-> None,
            datastore |-> None,
            annotation |-> "", numCPU |-> 0, memoryMB |-> 0,
            powerState |-> "poweredOff", toolsVersionStatus2 |-> Unset]

InitLoc == [changes |-> <<>>,
            relocation_required |-> FALSE,
            reconfiguration_required |-> FALSE,
            requires_shutdown |-> FALSE,
            relocation_spec |-> NoRelocateSpec,
            virtualmachine_conf |-> NoConfigSpec,
            template |-> None, datastore |-> None, folder |-> None,
            resource_pool |-> None,
            status |-> Unset,
            new_vm_bound |-> FALSE,
            error_msg |-> Unset, error_args |-> <<>>]

\* module.exit_json(**kwargs): report and leave the process
ExitJson(changed, changes, facts) ==
    [kind |-> "exit_json", changed |-> changed, changes |-> changes,
     msg |-> Unset, args |-> <<>>, facts |-> facts]

\* module.fail_json(msg=...): report the failure and leave the process
FailJson(msg, args, changes) ==
    [kind |-> "fail_json", changed |-> FALSE, changes |-> changes,
     msg |-> msg, args |-> args, facts |-> NoFacts]

\* an exception no handler catches: the interpreter prints a traceback and
\* the process ends without a JSON result
Uncaught(exc) ==
    [kind |-> "exception", changed |-> FALSE, changes |-> <<>>,
     msg |-> exc, args |-> <<>>, facts |-> NoFacts]

\* gather_facts(virtualmachine); memory_mb / 1024 is Python 2 integer division
GatherFacts(vm) ==
    [memory_mb |-> vm.memoryMB, memory_gb |-> vm.memoryMB \div MbPerGb,
     num_cpus |-> vm.numCPU, vm_tools_status |-> Unset]

\* a task the backend has accepted; it starts queued
NewTask(kind, relocate, config, folder) ==
    [kind |-> kind, state |-> "queued", fault |-> "none", faultName |-> Unset,
     relocate |-> relocate, config |-> config, folder |-> folder]

TerminalStates == {"success", "error"}

-----------------------------------------------------------------------------
(* Inventory views and initial states *)

PoolView == <<P1, P2, P3>>
FolderView == <<F1, F2, F3>>
DatastoreView == <<D1, D2>>

\* the vim.VirtualMachine view: the template, and the guest once it exists
VmView(g, name) ==
    IF g.exists THEN <<TemplateVM, [id |-> GuestVM.id, name |-> name]>>
    ELSE <<TemplateVM>>

\* argument_spec of vsphere_template, with its defaults
TemplateParams ==
    [vcenter_hostname : {"vcenter"},
     guest : {GuestVM.name},
     template_src : {TemplateVM.name, "no-such-template"},
     datastore : {D1.name, "no-such-datastore"},
     folder : {F1.name, "no-such-folder"},
     resource_pool : {P1.name, "no-such-pool"},
     notes : {""},
     num_cpus : {DefaultNumCpus},
     memory_mb : {DefaultMemoryMb},
     power_on_after_clone : {TRUE},
     state : {Unset},
     cluster : {Unset},
     sync : {TRUE}]

\* the observed states of an existing guest
ExistingGuests ==
    [exists : {TRUE},
     resourcePool : {P1, P2, P3},
     parent : {F1, F2, F3},
     datastore : {D1, D2},
     annotation : Annotations,
     numCPU : CpuCounts,
     memoryMB : MemorySizes,
     powerState : PowerStates,
     toolsVersionStatus2 : ToolsStatuses]

InitTemplate ==
    /\ prog = "vsphere_template"
    /\ params \in TemplateParams
    /\ guest \in {NoGuest} \cup
                 {g \in ExistingGuests : g.toolsVersionStatus2 = "guestToolsCurrent"}
    /\ pc = "validate"

\* argument_spec of vsphere_tools; state is validated by the module itself
ToolsParams ==
    [vcenter_hostname : {"vcenter"},
     guest : {GuestVM.name},
     template_src : {Unset}, datastore : {Unset}, folder : {Unset},
     resource_pool : {Unset}, notes : {Unset},
     num_cpus : {0}, memory_mb : {0}, power_on_after_clone : {FALSE},
     state : {"present", "latest", "absent", "installed"},
     cluster : {Unset},
     sync : {TRUE}]

InitTools ==
    /\ prog = "vsphere_tools"
    /\ params \in ToolsParams
    /\ guest \in {NoGuest} \cup
                 {g \in ExistingGuests :
                     /\ g.resourcePool = P1 /\ g.parent = F1
                     /\ g.datastore = D1
                     /\ g.annotation = "" /\ g.numCPU = DefaultNumCpus
                     /\ g.memoryMB = DefaultMemoryMb}
    /\ pc = "tools_main"

\* the resource pools of the pysphere inventory, by path
AllPools ==
    {[mor |-> 1, path |-> <<"/", "P">>],
     [mor |-> 2, path |-> <<"/", "Q", "P">>],
     [mor |-> 3, path |-> <<"/", "Q", "/", "P">>],
     [mor |-> 4, path |-> <<"/", "Q">>],
     [mor |-> 5, path |-> <<"/", "Q", "+", "P">>]}

PoolByMor(mor) == CHOOSE pool \in AllPools : pool.mor = mor

\* the name of a pool is the last segment of its path
PoolName(path) ==
    LET slashes == {i \in 1..Len(path) : path[i] = "/"}
        last == CHOOSE i \in slashes : \A j \in slashes : j <= i
    IN  SubSeq(path, last + 1, Len(path))

ClusterName == "cluster1"

\* server.get_resource_pools(from_mor=cluster) in every iteration order
PoolListings ==
    {l \in UNION {[1..k -> AllPools] : k \in 0..MaxPools} :
        \A i, j \in 1..Len(l) : i # j => l[i] # l[j]}

\* argument_spec of vsphere_migrate_pool
MigratePoolParams ==
    [vcenter_hostname : {"vcenter"},
     guest : {GuestVM.name},
     template_src : {Unset}, datastore : {Unset}, folder : {Unset},
     resource_pool : {<<"P">>, <<"Q", "P">>, <<"Q">>, <<"/", "P">>,
                      <<"Q", "+", "P">>, <<"Z">>},
     notes : {Unset},
     num_cpus : {0}, memory_mb : {0}, power_on_after_clone : {FALSE},
     state : {Unset},
     cluster : {ClusterName, "no-such-cluster"},
     sync : BOOLEAN]

CanonicalGuest ==
    [exists |-> TRUE, resourcePool |-> P1, parent |-> F1, datastore |-> D1,
     annotation |-> "",
     numCPU |-> DefaultNumCpus, memoryMB |-> DefaultMemoryMb,
     powerState |-> "poweredOn", toolsVersionStatus2 |-> "guestToolsCurrent"]

InitMigratePool ==
    /\ prog = "vsphere_migrate_pool"
    /\ params \in MigratePoolParams
    /\ guest \in {NoGuest, CanonicalGuest}
    /\ rps \in PoolListings
    /\ vmPool \in {pool.mor : pool \in AllPools}
    /\ (~guest.exists \/ params.cluster # ClusterName) =>
           (rps = <<>> /\ vmPool = 1 /\ params.sync)
    /\ pc = "migrate_main"

Init ==
    /\ check_mode \in BOOLEAN
    /\ \/ InitTemplate /\ rps = <<>> /\ vmPool = 0
       \/ InitTools /\ rps = <<>> /\ vmPool = 0
       \/ InitMigratePool
    /\ observed = guest
    /\ ret = "none"
    /\ loc = InitLoc
    /\ tasks = <<>>
    /\ task = 0
    /\ migrations = <<>>
    /\ result = NoResult
    /\ run = 1
    /\ prev = NoResult

-----------------------------------------------------------------------------
(* vsphere_template: main *)

\* lines 134-160: resolve template, datastore, folder and resource pool, in
\* this order; the first one that is missing fails the run
NotFoundMsg(kind) ==
    IF kind = "template" THEN "template \"%s\" not found on vCenter server at %s"
    ELSE IF kind = "datastore" THEN "datastore %s not found on vCenter server at %s"
    ELSE IF kind = "folder" THEN "folder %s not found on vCenter server at %s"
    ELSE "resource_pool %s not found on vCenter server at %s"

TemplateValidate ==
    /\ prog = "vsphere_template" /\ pc = "validate"
    /\ LET template == GetObj(VmView(guest, params.guest), params.template_src)
           datastore == GetObj(DatastoreView, params.datastore)
           folder == GetObj(FolderView, params.folder)
           resource_pool == GetObj(PoolView, params.resource_pool)
           fail(kind, name) ==
               /\ result' = FailJson(NotFoundMsg(kind),
                                     <<name, params.vcenter_hostname>>, <<>>)
               /\ pc' = "done"
               /\ loc' = loc
       IN  IF template = None THEN fail("template", params.template_src)
           ELSE IF datastore = None THEN fail("datastore", params.datastore)
           ELSE IF folder = None THEN fail("folder", params.folder)
           ELSE IF resource_pool = None
                THEN fail("resource_pool", params.resource_pool)
           ELSE /\ loc' = [loc EXCEPT !.template = template,
                                      !.datastore = datastore,
                                      !.folder = folder,
                                      !.resource_pool = resource_pool]
                /\ pc' = "lookup_guest"
                /\ result' = result
    /\ UNCHANGED <<prog, check_mode, run, prev, ret, params, observed, guest, tasks, task, rps, vmPool,
                   migrations>>

TemplateLookupGuest_AlwaysClone ==
    /\ prog = "vsphere_template" /\ pc = "lookup_guest"
    /\ pc' = "clone"
    /\ UNCHANGED <<prog, check_mode, run, prev, ret, params, observed, guest, loc, tasks, task,
                   rps, vmPool, migrations, result>>

\* lines 162-165: an existing guest is reconciled, a missing one is cloned
TemplateLookupGuest ==
    /\ prog = "vsphere_template" /\ pc = "lookup_guest"
    /\ pc' = IF GetObj(VmView(guest, params.guest), params.guest) # None
             THEN "change_guest" ELSE "clone"
    /\ UNCHANGED <<prog, check_mode, run, prev, ret, params, observed, guest, loc, tasks, task, rps,
                   vmPool, migrations, result>>

-----------------------------------------------------------------------------
(* vsphere_template: change_guest *)

\* the properties of a vim.VirtualMachine managed object (vSphere API:
\* VirtualMachine, ManagedEntity, ExtensibleManagedObject); reading any other
\* attribute of the object raises AttributeError
VirtualMachineProperties ==
    {"capability", "config", "datastore", "environmentBrowser", "guest",
     "guestHeartbeatStatus", "layout", "layoutEx", "network", "parentVApp",
     "resourceConfig", "resourcePool", "rootSnapshot", "runtime", "snapshot",
     "storage", "summary", "alarmActionsEnabled", "configIssue",
     "configStatus", "customValue", "declaredAlarmState", "disabledMethod",
     "effectiveRole", "name", "overallStatus", "parent", "permission",
     "recentTask", "tag", "triggeredAlarmState", "availableField", "value"}

\* line 227
PoolDiffers(vm, resource_pool) == vm.resourcePool.name # resource_pool.name
\* line 233
FolderDiffers(vm, folder) == vm.parent.name # folder.name
\* line 239
AnnotationDiffers(vm, p) == vm.annotation # p.notes
CpuDiffers_WrongParam(vm, p) == vm.numCPU # p.memory_mb

\* line 245
CpuDiffers(vm, p) == vm.numCPU # p.num_cpus
\* line 252
MemoryDiffers(vm, p) == vm.memoryMB # p.memory_mb

\* lines 233-237: the description of a folder change reads guest.folder.name
FolderChangeRaises(vm, folder) ==
    FolderDiffers(vm, folder) /\ "folder" \notin VirtualMachineProperties

DiffDatastore_Enabled(l, vm, datastore) ==
    IF vm.datastore.name # datastore.name
    THEN [l EXCEPT !.changes = Append(@,
                       <<"Relocate VM from datastore %s to %s",
                         vm.datastore.name, datastore.name>>),
                   !.relocation_spec.datastore = datastore,
                   !.relocation_required = TRUE]
    ELSE l

\* lines 218-225: the datastore comparison is commented out
DiffDatastore(l, vm, datastore) == l

DiffPool_SpecNotSet(l, vm, resource_pool) ==
    IF PoolDiffers(vm, resource_pool)
    THEN [l EXCEPT !.changes = Append(@,
                       <<"Relocate VM from resource pool %s to %s",
                         vm.resourcePool.name, resource_pool.name>>),
                   !.relocation_required = TRUE]
    ELSE l

\* lines 227-231
DiffPool(l, vm, resource_pool) ==
    IF PoolDiffers(vm, resource_pool)
    THEN [l EXCEPT !.changes = Append(@,
                       <<"Relocate VM from resource pool %s to %s",
                         vm.resourcePool.name, resource_pool.name>>),
                   !.relocation_spec.pool = resource_pool,
                   !.relocation_required = TRUE]
    ELSE l

\* lines 233-237 (when guest.folder can be read)
DiffFolder(l, vm, folder) ==
    IF FolderDiffers(vm, folder)
    THEN [l EXCEPT !.changes = Append(@,
                       <<"Relocate VM from folder %s to %s",
                         vm.parent.name, folder.name>>),
                   !.relocation_spec.folder = folder,
                   !.relocation_required = TRUE]
    ELSE l

\* lines 239-243
DiffAnnotation(l, vm, p) ==
    IF AnnotationDiffers(vm, p)
    THEN [l EXCEPT !.changes = Append(@,
                       <<"Change configured annotation of VM from \"%s\" to \"%s\"",
                         vm.annotation, p.notes>>),
                   !.virtualmachine_conf.annotation = p.notes,
                   !.reconfiguration_required = TRUE]
    ELSE l

\* lines 245-250
DiffCpu(l, vm, p) ==
    IF CpuDiffers(vm, p)
    THEN [l EXCEPT !.changes = Append(@,
                       <<"Change configured number of CPUs of VM from %d to %d",
                         ToString(vm.numCPU), ToString(p.num_cpus)>>),
                   !.virtualmachine_conf.numCPUs = p.num_cpus,
                   !.reconfiguration_required = TRUE,
                   !.requires_shutdown = TRUE]
    ELSE l

DiffMemory_NoDescription(l, vm, p) ==
    IF MemoryDiffers(vm, p)
    THEN [l EXCEPT !.virtualmachine_conf.memoryMB = p.memory_mb,
                   !.reconfiguration_required = TRUE,
                   !.requires_shutdown = TRUE]
    ELSE l

\* lines 252-257
DiffMemory(l, vm, p) ==
    IF MemoryDiffers(vm, p)
    THEN [l EXCEPT !.changes = Append(@,
                       <<"Change configured memory in MB of VM from %d to %d",
                         ToString(vm.memoryMB), ToString(p.memory_mb)>>),
                   !.virtualmachine_conf.memoryMB = p.memory_mb,
                   !.reconfiguration_required = TRUE,
                   !.requires_shutdown = TRUE]
    ELSE l

\* lines 211-257: the comparison of the guest with the desired state
ChangeGuestDiff ==
    /\ prog = "vsphere_template" /\ pc = "change_guest"
    /\ IF FolderChangeRaises(guest, loc.folder)
       THEN /\ loc' = DiffPool(DiffDatastore(loc, guest, loc.datastore),
                            guest, loc.resource_pool)
            /\ result' = Uncaught("AttributeError")
            /\ pc' = "done"
       ELSE /\ loc' = DiffMemory(DiffCpu(DiffAnnotation(DiffFolder(
                          DiffPool(DiffDatastore(loc, guest, loc.datastore),
                                   guest, loc.resource_pool),
                          guest, loc.folder), guest, params), guest, params),
                          guest, params)
            /\ result' = result
            /\ pc' = "gate"
    /\ UNCHANGED <<prog, check_mode, run, prev, ret, params, observed, guest, tasks, task, rps, vmPool,
                   migrations>>

ChangeGuestDryRun_Ignored(cm) == FALSE

\* line 268: if module.check_mode
ChangeGuestDryRun(cm) == cm

ApplyOrder_Swapped == <<"reconfigure", "relocate">>

\* lines 272-277: the order of the apply steps
ApplyOrder == <<"relocate", "reconfigure">>

\* the step that follows an apply step, or the exit at lines 278-281
StepAfter(step) ==
    LET i == CHOOSE k \in 1..Len(ApplyOrder) : ApplyOrder[k] = step
    IN  IF i < Len(ApplyOrder) THEN ApplyOrder[i + 1] ELSE "change_exit"

GateMessageChanges_HardwareOnly(l) ==
    SelectSeq(l.changes, LAMBDA c :
        c[1] \in {"Change configured number of CPUs of VM from %d to %d",
                  "Change configured memory in MB of VM from %d to %d"})

\* line 266: ', '.join(changes)
GateMessageChanges(l) == l.changes

GateBlocks_CpuOnly(l, vm) ==
    l.virtualmachine_conf.numCPUs # 0 /\ vm.powerState = "poweredOn"

\* lines 260-261
GateBlocks(l, vm) == l.requires_shutdown /\ vm.powerState = "poweredOn"

\* lines 259-271 and 282-285: nothing to do, blocked, dry run, or apply
ChangeGuestGate ==
    /\ prog = "vsphere_template" /\ pc = "gate"
    /\ IF Len(loc.changes) > 0
       THEN IF GateBlocks(loc, guest)
            THEN /\ result' = FailJson(
                        "VM %s is powered on and virtual hardware changes have been detected. Please shutdown the VM and rerun this action to apply the following changes: %s",
                        <<params.guest>>, GateMessageChanges(loc))
                 /\ pc' = "done"
                 /\ loc' = loc
            ELSE IF ChangeGuestDryRun(check_mode)
                 THEN /\ loc' = [loc EXCEPT !.changes = Append(@,
                            <<"These changes were detected, but not applied, due to running in check mode">>)]
                      /\ pc' = "change_exit"
                      /\ result' = result
                 ELSE /\ pc' = ApplyOrder[1]
                      /\ UNCHANGED <<loc, result>>
       ELSE /\ result' = ExitJson(FALSE, <<>>, GatherFacts(guest))
            /\ pc' = "done"
            /\ loc' = loc
    /\ UNCHANGED <<prog, check_mode, run, prev, ret, params, observed, guest, tasks, task, rps, vmPool,
                   migrations>>

\* lines 272-274: one RelocateVM_Task for the whole relocation spec
ChangeGuestRelocate ==
    /\ prog = "vsphere_template" /\ pc = "relocate"
    /\ IF loc.relocation_required
       THEN /\ tasks' = Append(tasks, NewTask("RelocateVM_Task",
                               loc.relocation_spec, NoConfigSpec, None))
            /\ task' = Len(tasks) + 1
            /\ pc' = "wait_success"
            /\ ret' = StepAfter("relocate")
       ELSE /\ pc' = StepAfter("relocate")
            /\ UNCHANGED <<tasks, task, ret>>
    /\ UNCHANGED <<prog, check_mode, run, prev, params, observed, guest, loc, rps, vmPool, migrations,
                   result>>

\* lines 275-277: one ReconfigVM_Task for the whole config spec
ChangeGuestReconfigure ==
    /\ prog = "vsphere_template" /\ pc = "reconfigure"
    /\ IF loc.reconfiguration_required
       THEN /\ tasks' = Append(tasks, NewTask("ReconfigVM_Task",
                               NoRelocateSpec, loc.virtualmachine_conf, None))
            /\ task' = Len(tasks) + 1
            /\ pc' = "wait_success"
            /\ ret' = StepAfter("reconfigure")
       ELSE /\ pc' = StepAfter("reconfigure")
            /\ UNCHANGED <<tasks, task, ret>>
    /\ UNCHANGED <<prog, check_mode, run, prev, params, observed, guest, loc, rps, vmPool, migrations,
                   result>>

\* lines 278-281
ChangeGuestExit ==
    /\ prog = "vsphere_template" /\ pc = "change_exit"
    /\ result' = ExitJson(TRUE, loc.changes, GatherFacts(guest))
    /\ pc' = "done"
    /\ UNCHANGED <<prog, check_mode, run, prev, ret, params, observed, guest, loc, tasks, task, rps,
                   vmPool, migrations>>

-----------------------------------------------------------------------------
(* vsphere_template: creation of a new guest *)

\* line 187: if module.check_mode
CloneDryRun(cm) == cm

\* lines 167-195: build the clone spec, then dry-run note or Clone task
TemplateClone ==
    /\ prog = "vsphere_template" /\ pc = "clone"
    /\ IF CloneDryRun(check_mode)
       THEN /\ loc' = [loc EXCEPT !.changes =
                   <<<<"vm %s would have been created, if not running in check mode",
                       params.guest>>>>]
            /\ pc' = "clone_exit"
            /\ UNCHANGED <<tasks, task, ret>>
       ELSE /\ tasks' = Append(tasks, NewTask("Clone",
                   [pool |-> loc.resource_pool, folder |-> None,
                    datastore |-> loc.datastore],
                   [annotation |-> params.notes, numCPUs |-> params.num_cpus,
                    memoryMB |-> params.memory_mb],
                   loc.folder))
            /\ task' = Len(tasks) + 1
            /\ pc' = "wait_success"
            /\ ret' = "clone_done"
            /\ loc' = loc
    /\ UNCHANGED <<prog, check_mode, run, prev, params, observed, guest, rps, vmPool, migrations, result>>

\* lines 196-197: new_vm is bound to the task's result
TemplateCloneDone ==
    /\ prog = "vsphere_template" /\ pc = "clone_done"
    /\ loc' = [loc EXCEPT !.new_vm_bound = TRUE,
                          !.changes = <<<<"vm %s has been created", params.guest>>>>]
    /\ pc' = "clone_exit"
    /\ UNCHANGED <<prog, check_mode, run, prev, ret, params, observed, guest, tasks, task, rps, vmPool,
                   migrations, result>>

\* line 202: gather_facts(new_vm) reads the local new_vm, which only the
\* apply branch (line 196) assigns
NewVmRaises(l) == ~l.new_vm_bound

\* lines 199-202
TemplateCloneExit ==
    /\ prog = "vsphere_template" /\ pc = "clone_exit"
    /\ result' = IF NewVmRaises(loc) THEN Uncaught("UnboundLocalError")
                 ELSE ExitJson(TRUE, loc.changes, GatherFacts(guest))
    /\ pc' = "done"
    /\ UNCHANGED <<prog, check_mode, run, prev, ret, params, observed, guest, loc, tasks, task, rps,
                   vmPool, migrations>>

-----------------------------------------------------------------------------
(* wait_for_task (vsphere_template and vsphere_tools) *)

IsDuplicateName_AnyFault(t) == t.fault # "none"

\* line 308: isinstance(task.info.error, vim.fault.DuplicateName)
IsDuplicateName(t) == t.fault = "DuplicateName"

\* lines 301 and 308-310: the generic message, refined for a name collision
ErrorMsg(t) ==
    IF IsDuplicateName(t) THEN "an object with the name %s already exists"
    ELSE "an error occurred while waiting for the task to complete"

ErrorArgs(t) == IF IsDuplicateName(t) THEN <<t.faultName>> ELSE <<>>

SeesSuccess_NotQueued(t) == t.state # "queued"

SeesSuccess_AnyTerminal(t) == t.state \in TerminalStates

\* line 304
SeesSuccess(t) == t.state = "success"
SeesError_Never(t) == FALSE

\* line 307
SeesError(t) == t.state = "error"

\* lines 303-305: the first read of task.info.state in an iteration
WaitCheckSuccess ==
    /\ pc = "wait_success"
    /\ IF SeesSuccess(tasks[task])
       THEN pc' = ret /\ ret' = "none"
       ELSE pc' = "wait_error" /\ ret' = ret
    /\ UNCHANGED <<prog, check_mode, run, prev, params, observed, guest, loc, tasks, task, rps, vmPool,
                   migrations, result>>

\* lines 307-311: the second read of task.info.state in an iteration
WaitCheckError ==
    /\ pc = "wait_error"
    /\ IF SeesError(tasks[task])
       THEN /\ loc' = [loc EXCEPT !.error_msg = ErrorMsg(tasks[task]),
                                  !.error_args = ErrorArgs(tasks[task])]
            /\ result' = FailJson(ErrorMsg(tasks[task]), ErrorArgs(tasks[task]),
                                  <<>>)
            /\ pc' = "done"
       ELSE /\ pc' = "wait_success"
            /\ UNCHANGED <<loc, result>>
    /\ UNCHANGED <<prog, check_mode, run, prev, ret, params, observed, guest, tasks, task, rps, vmPool,
                   migrations>>

-----------------------------------------------------------------------------
(* The vCenter backend: it runs the submitted tasks *)

\* what a task's success does to the VM
ApplyTask(vm, t, p) ==
    IF t.kind = "RelocateVM_Task"
    THEN [vm EXCEPT !.resourcePool = IF t.relocate.pool # None
                                     THEN t.relocate.pool ELSE @,
                    !.parent = IF t.relocate.folder # None
                               THEN t.relocate.folder ELSE @,
                    !.datastore = IF t.relocate.datastore # None
                                  THEN t.relocate.datastore ELSE @]
    ELSE IF t.kind = "ReconfigVM_Task"
    THEN [vm EXCEPT !.annotation = IF t.config.annotation # Unset
                                   THEN t.config.annotation ELSE @,
                    !.numCPU = IF t.config.numCPUs # 0
                               THEN t.config.numCPUs ELSE @,
                    !.memoryMB = IF t.config.memoryMB # 0
                                 THEN t.config.memoryMB ELSE @]
    ELSE IF t.kind = "Clone"
    THEN [exists |-> TRUE, resourcePool |-> t.relocate.pool,
          parent |-> t.folder, datastore |-> t.relocate.datastore,
          annotation |-> t.config.annotation,
          numCPU |-> t.config.numCPUs, memoryMB |-> t.config.memoryMB,
          powerState |-> IF p.power_on_after_clone THEN "poweredOn"
                         ELSE "poweredOff",
          toolsVersionStatus2 |-> "guestToolsCurrent"]
    ELSE [vm EXCEPT !.toolsVersionStatus2 = "guestToolsCurrent"]

\* a queued task starts running
BackendStart ==
    /\ \E i \in 1..Len(tasks) :
         /\ tasks[i].state = "queued"
         /\ tasks' = [tasks EXCEPT ![i].state = "running"]
    /\ UNCHANGED <<prog, check_mode, run, prev, pc, ret, params, observed, guest, loc, task, rps, vmPool,
                   migrations, result>>

\* a running task completes and its effect is visible on the VM
BackendSucceed ==
    /\ \E i \in 1..Len(tasks) :
         /\ tasks[i].state = "running"
         /\ tasks' = [tasks EXCEPT ![i].state = "success"]
         /\ guest' = ApplyTask(guest, tasks[i], params)
    /\ UNCHANGED <<prog, check_mode, run, prev, pc, ret, params, observed, loc, task, rps, vmPool,
                   migrations, result>>

\* a task that has not completed fails with some fault
BackendFail ==
    /\ \E i \in 1..Len(tasks), f \in Faults :
         /\ tasks[i].state \notin TerminalStates
         /\ tasks' = [tasks EXCEPT ![i].state = "error", ![i].fault = f,
                        ![i].faultName = IF f = "DuplicateName"
                                         THEN params.guest ELSE Unset]
    /\ UNCHANGED <<prog, check_mode, run, prev, pc, ret, params, observed, guest, loc, task, rps, vmPool,
                   migrations, result>>

-----------------------------------------------------------------------------
(* vsphere_tools: main *)

ValidStates == {"present", "latest", "absent"}

UpgradableStatuses_NoTooOld ==
    {"guestToolsBlacklisted", "guestToolsNeedUpgrade", "guestToolsNotInstalled",
     "guestToolsSupportedOld"}

\* lines 119-121: the statuses that state=latest upgrades
UpgradableStatuses ==
    {"guestToolsBlacklisted", "guestToolsNeedUpgrade", "guestToolsNotInstalled",
     "guestToolsSupportedOld", "guestToolsTooOld"}

\* line 111
PresentMismatch(state, status) ==
    state = "present" /\ status = "guestToolsNotInstalled"
AbsentMismatch_Inverted(state, status) ==
    state = "absent" /\ status = "guestToolsNotInstalled"

\* line 115
AbsentMismatch(state, status) ==
    state = "absent" /\ status # "guestToolsNotInstalled"
\* lines 119-121
NeedsUpgrade(state, status) ==
    state = "latest" /\ status \in UpgradableStatuses

\* line 122: if module.check_mode
ToolsDryRun(cm) == cm

\* lines 97-131 and 137-139: validation, the status read and the decision
ToolsMain ==
    /\ prog = "vsphere_tools" /\ pc = "tools_main"
    /\ LET found == GetObj(VmView(guest, params.guest), params.guest) # None
           state == params.state
           status == guest.toolsVersionStatus2
           stop(r) == /\ result' = r
                      /\ pc' = "done"
                      /\ UNCHANGED <<tasks, task, ret>>
       IN  IF ~found
           THEN /\ stop(FailJson("guest VM \"%s\" not found on vCenter server at %s",
                                 <<params.guest, params.vcenter_hostname>>, <<>>))
                /\ loc' = loc
           ELSE IF state \notin ValidStates
           THEN /\ stop(FailJson("invalid state \"%s\" recieved, state must be one of: present, latest, absent",
                                 <<state>>, <<>>))
                /\ loc' = loc
           ELSE IF PresentMismatch(state, status)
           THEN /\ stop(FailJson("guest VM \"%s\" has the tools state \"present\", but the current status if the tools is \"%s\"",
                                 <<params.guest, status>>, <<>>))
                /\ loc' = [loc EXCEPT !.status = status]
           ELSE IF AbsentMismatch(state, status)
           THEN /\ stop(FailJson("guest VM \"%s\" has the tools state \"absent\", but the current status if the tools is \"%s\"",
                                 <<params.guest, status>>, <<>>))
                /\ loc' = [loc EXCEPT !.status = status]
           ELSE IF NeedsUpgrade(state, status)
           THEN IF ToolsDryRun(check_mode)
                THEN /\ loc' = [loc EXCEPT !.status = status, !.changes =
                            <<<<"tools on guest VM %s would have been upgraded, if not running in check mode",
                                params.guest>>>>]
                     /\ pc' = "tools_exit"
                     /\ UNCHANGED <<tasks, task, ret, result>>
                ELSE /\ tasks' = Append(tasks, NewTask("UpgradeTools",
                                        NoRelocateSpec, NoConfigSpec, None))
                     /\ task' = Len(tasks) + 1
                     /\ pc' = "wait_success"
                     /\ ret' = "tools_upgraded"
                     /\ loc' = [loc EXCEPT !.status = status]
                     /\ result' = result
           ELSE /\ stop(ExitJson(FALSE, <<>>,
                                 [NoFacts EXCEPT !.vm_tools_status = status]))
                /\ loc' = [loc EXCEPT !.status = status]
    /\ UNCHANGED <<prog, check_mode, run, prev, params, observed, guest, rps, vmPool, migrations>>

\* lines 130-131
ToolsUpgraded ==
    /\ prog = "vsphere_tools" /\ pc = "tools_upgraded"
    /\ loc' = [loc EXCEPT !.changes =
                  <<<<"tools on guest VM %s have been upgraded", params.guest>>>>]
    /\ pc' = "tools_exit"
    /\ UNCHANGED <<prog, check_mode, run, prev, ret, params, observed, guest, tasks, task, rps, vmPool,
                   migrations, result>>

ReportedStatus_Reread(l, vm) == vm.toolsVersionStatus2

\* line 135: the fact is the local variable status
ReportedStatus(l, vm) == l.status

\* lines 132-135: the reported status is the local read at line 108
ToolsExit ==
    /\ prog = "vsphere_tools" /\ pc = "tools_exit"
    /\ result' = ExitJson(TRUE, loc.changes,
                          [NoFacts EXCEPT !.vm_tools_status =
                                              ReportedStatus(loc, guest)])
    /\ pc' = "done"
    /\ UNCHANGED <<prog, check_mode, run, prev, ret, params, observed, guest, loc, tasks, task, rps,
                   vmPool, migrations>>

-----------------------------------------------------------------------------
(* vsphere_migrate_pool: main *)

\* re.match of one pattern character against one character
CharMatch(c, x) == c = x

\* re.match(pat + '$', str) for a pattern of literal characters and the
\* quantifier "+": does the pattern match the whole of str
RECURSIVE FullMatch(_, _)
FullMatch(pat, str) ==
    IF pat = <<>> THEN str = <<>>
    ELSE IF Len(pat) >= 2 /\ pat[2] = "+"
    THEN \E k \in 1..Len(str) :
            /\ \A i \in 1..k : CharMatch(pat[1], str[i])
            /\ FullMatch(SubSeq(pat, 3, Len(pat)), SubSeq(str, k + 1, Len(str)))
    ELSE /\ str # <<>>
         /\ CharMatch(pat[1], str[1])
         /\ FullMatch(Tail(pat), Tail(str))

\* lines 107 and 108: re.match('.*%s$' % name, path); the name is used as a
\* regular expression
ReMatchEnd(name, path) ==
    \E k \in 1..(Len(path) + 1) : FullMatch(name, SubSeq(path, k, Len(path)))

\* the index of the first pool in iteration order whose path matches the
\* desired name (line 107), 0 if the loop ends without one
FirstMatch(pools, new_name) ==
    LET idx == {i \in 1..Len(pools) : ReMatchEnd(new_name, pools[i].path)}
    IN  IF idx = {} THEN 0 ELSE Min(idx)

IsOtherPool_Always(old_name, path) == TRUE

\* line 108: the matched path does not also match the current pool's name
IsOtherPool(old_name, path) == ~ReMatchEnd(old_name, path)

\* line 109: if not module.check_mode
MigrateDryRun(cm) == cm

\* lines 87-117
MigratePoolMain ==
    /\ prog = "vsphere_migrate_pool" /\ pc = "migrate_main"
    /\ LET old_name == PoolName(PoolByMor(vmPool).path)
           new_name == params.resource_pool
           m == FirstMatch(rps, new_name)
       IN  IF ~guest.exists
           THEN /\ result' = Uncaught("VIException")
                /\ UNCHANGED <<migrations, vmPool>>
           ELSE IF params.cluster # ClusterName
           THEN /\ result' = FailJson("Cluster %s not found on server %s",
                                      <<params.cluster, params.vcenter_hostname>>,
                                      <<>>)
                /\ UNCHANGED <<migrations, vmPool>>
           ELSE IF m = 0
           THEN /\ result' = FailJson("Resource pool %s not found",
                                      <<params.resource_pool>>, <<>>)
                /\ UNCHANGED <<migrations, vmPool>>
           ELSE IF IsOtherPool(old_name, rps[m].path)
           THEN IF MigrateDryRun(check_mode)
                THEN /\ result' = ExitJson(TRUE, <<<<"module.params">>>>, NoFacts)
                     /\ UNCHANGED <<migrations, vmPool>>
                ELSE \E ok \in BOOLEAN :
                       /\ migrations' = Append(migrations,
                              [mor |-> rps[m].mor, sync |-> params.sync,
                               pending |-> ok /\ ~params.sync,
                               from |-> vmPool])
                       /\ vmPool' = IF ok /\ params.sync THEN rps[m].mor
                                    ELSE vmPool
                       /\ result' = IF ok
                                    THEN ExitJson(TRUE, <<<<"module.params">>>>,
                                                  NoFacts)
                                    ELSE Uncaught("VIException")
           ELSE /\ result' = ExitJson(FALSE, <<<<"module.params">>>>, NoFacts)
                /\ UNCHANGED <<migrations, vmPool>>
    /\ pc' = "done"
    /\ UNCHANGED <<prog, check_mode, run, prev, ret, params, observed, guest, loc, tasks, task, rps>>

\* a migration started with sync=False completes in the backend
BackendMigrate ==
    /\ \E i \in 1..Len(migrations) :
         /\ migrations[i].pending
         /\ migrations' = [migrations EXCEPT ![i].pending = FALSE]
         /\ vmPool' = migrations[i].mor
    /\ UNCHANGED <<prog, check_mode, run, prev, pc, ret, params, observed, guest, loc, tasks, task,
                   rps, result>>

-----------------------------------------------------------------------------
(* The play is run again *)

\* the entry point of each module's main()
StartPc(p) ==
    IF p = "vsphere_template" THEN "validate"
    ELSE IF p = "vsphere_tools" THEN "tools_main"
    ELSE "migrate_main"

\* main() is invoked again with the same parameters once the previous process
\* has ended and the backend has settled; the new process has fresh locals
\* and holds no task of the previous one
Rerun ==
    /\ pc = "done"
    /\ run < MaxRuns
    /\ \A i \in 1..Len(migrations) : ~migrations[i].pending
    /\ run' = run + 1
    /\ prev' = result
    /\ pc' = StartPc(prog)
    /\ ret' = "none"
    /\ loc' = InitLoc
    /\ tasks' = <<>>
    /\ task' = 0
    /\ migrations' = <<>>
    /\ observed' = guest
    /\ result' = NoResult
    /\ UNCHANGED <<prog, check_mode, params, guest, rps, vmPool>>

-----------------------------------------------------------------------------

Next ==
    \/ TemplateValidate
    \/ TemplateLookupGuest
    \/ ChangeGuestDiff
    \/ ChangeGuestGate
    \/ ChangeGuestRelocate
    \/ ChangeGuestReconfigure
    \/ ChangeGuestExit
    \/ TemplateClone
    \/ TemplateCloneDone
    \/ TemplateCloneExit
    \/ WaitCheckSuccess
    \/ WaitCheckError
    \/ BackendStart
    \/ BackendSucceed
    \/ BackendFail
    \/ ToolsMain
    \/ ToolsUpgraded
    \/ ToolsExit
    \/ MigratePoolMain
    \/ BackendMigrate
    \/ Rerun

Spec == Init /\ [][Next]_vars

TypeOK ==
    /\ prog \in {"vsphere_template", "vsphere_tools", "vsphere_migrate_pool"}
    /\ check_mode \in BOOLEAN
    /\ result.kind \in {"none", "exit_json", "fail_json", "exception"}
    /\ task \in 0..Len(tasks)
    /\ (pc = "done") = (result.kind # "none")
    /\ run \in 1..MaxRuns
    /\ (run = 1) => (prev = NoResult)
    /\ (pc = "done") => \A i \in 1..Len(tasks) : tasks[i].state \in TerminalStates

-----------------------------------------------------------------------------
(* Properties of change_guest *)

\* the run resolved all four objects and found the guest: change_guest runs
EntersChangeGuest ==
    /\ prog = "vsphere_template"
    /\ observed.exists
    /\ GetObj(VmView(observed, params.guest), params.template_src) # None
    /\ GetObj(DatastoreView, params.datastore) # None
    /\ GetObj(FolderView, params.folder) # None
    /\ GetObj(PoolView, params.resource_pool) # None

DesiredPool == GetObj(PoolView, params.resource_pool)
DesiredFolder == GetObj(FolderView, params.folder)

Submitted(kind) == {i \in 1..Len(tasks) : tasks[i].kind = kind}

Failed == result.kind \in {"fail_json", "exception"}

\* C1: when the desired CPU count or memory size differs from the observed
\* one and the guest is powered on, change_guest never submits a
\* RelocateVM_Task or a ReconfigVM_Task and the run ends in a failure (the
\* gate's fail_json, or the AttributeError of the folder description), whatever
\* else differs and in check mode as well
C1_HardwareChangeBlockedWhenPoweredOn ==
    ( /\ EntersChangeGuest
      /\ observed.numCPU # params.num_cpus \/ observed.memoryMB # params.memory_mb
      /\ observed.powerState = "poweredOn" )
    => /\ Submitted("RelocateVM_Task") = {}
       /\ Submitted("ReconfigVM_Task") = {}
       /\ pc = "done" => Failed
       /\ (pc = "done" /\ result.kind = "fail_json") =>
              /\ result.args = <<params.guest>>
              /\ result.changes = loc.changes
              /\ result.changes # <<>>

C1_Witness ==
    /\ EntersChangeGuest
    /\ check_mode
    /\ observed.memoryMB # params.memory_mb
    /\ observed.numCPU = params.num_cpus
    /\ observed.resourcePool.name # DesiredPool.name
    /\ observed.annotation # params.notes
    /\ observed.powerState = "poweredOn"
    /\ pc = "done"
    /\ result.kind = "fail_json"
    /\ Len(result.changes) = 3

\* C2: for an existing guest whose pool, folder, annotation, CPU count and
\* memory size equal the desired ones, the change list is empty, no task is
\* submitted and the run ends with changed=false, in every power state and in
\* both modes
C2_NoChangeWhenEqual ==
    ( /\ EntersChangeGuest
      /\ observed.resourcePool = DesiredPool
      /\ observed.parent = DesiredFolder
      /\ observed.annotation = params.notes
      /\ observed.numCPU = params.num_cpus
      /\ observed.memoryMB = params.memory_mb )
    => /\ loc.changes = <<>>
       /\ tasks = <<>>
       /\ pc \notin {"relocate", "reconfigure", "change_exit", "wait_success",
                     "wait_error"}
       /\ pc = "done" => (result.kind = "exit_json" /\ ~result.changed
                          /\ result.changes = <<>>)

C2_Witness ==
    /\ EntersChangeGuest
    /\ observed.resourcePool = DesiredPool
    /\ observed.parent = DesiredFolder
    /\ observed.annotation = params.notes
    /\ observed.numCPU = params.num_cpus
    /\ observed.memoryMB = params.memory_mb
    /\ observed.powerState = "poweredOn"
    /\ ~check_mode
    /\ pc = "done"
    /\ result.kind = "exit_json"

\* C3: in a run of change_guest that submits both, the RelocateVM_Task is
\* submitted before the ReconfigVM_Task, and the reconfiguration is never the
\* first of the two
C3_RelocateBeforeReconfigure ==
    /\ \A i \in Submitted("RelocateVM_Task"), j \in Submitted("ReconfigVM_Task") :
           i < j
    /\ (loc.relocation_required /\ Submitted("ReconfigVM_Task") # {})
           => Submitted("RelocateVM_Task") # {}

C3_Witness ==
    /\ Submitted("RelocateVM_Task") = {1}
    /\ Submitted("ReconfigVM_Task") = {2}
    /\ pc = "done"
    /\ result.kind = "exit_json"

PassesGate ==
    ~( /\ observed.numCPU # params.num_cpus \/ observed.memoryMB # params.memory_mb
       /\ observed.powerState = "poweredOn" )

\* C4: a run of change_guest that the gate lets apply, outside check mode,
\* submits exactly one RelocateVM_Task if pool or folder differs and none
\* otherwise, and exactly one ReconfigVM_Task if annotation, CPU count or
\* memory size differs and none otherwise
C4_OneTaskPerGroup ==
    ( /\ EntersChangeGuest
      /\ ~check_mode
      /\ PassesGate
      /\ pc = "done" )
    => /\ Cardinality(Submitted("RelocateVM_Task")) =
              IF \/ observed.resourcePool.name # DesiredPool.name
                 \/ observed.parent.name # DesiredFolder.name
              THEN 1 ELSE 0
       /\ Cardinality(Submitted("ReconfigVM_Task")) =
              IF \/ observed.annotation # params.notes
                 \/ observed.numCPU # params.num_cpus
                 \/ observed.memoryMB # params.memory_mb
              THEN 1 ELSE 0

-----------------------------------------------------------------------------
(* Properties of check mode *)

\* C5: in check mode no module submits backend work: no Clone,
\* RelocateVM_Task, ReconfigVM_Task or UpgradeTools task exists and migrate is
\* never called
C5_CheckModeSubmitsNothing ==
    check_mode => (tasks = <<>> /\ migrations = <<>>)

C5_Witness ==
    /\ check_mode
    /\ EntersChangeGuest
    /\ loc.relocation_required
    /\ loc.reconfiguration_required
    /\ pc = "done"
    /\ result.kind = "exit_json"
    /\ result.changed

\* C6: a vsphere_template run in check mode for a guest that does not exist
\* yet ends with a changed=true response
C6_CheckModeCreateReportsChanged ==
    ( /\ prog = "vsphere_template"
      /\ check_mode
      /\ ~observed.exists
      /\ GetObj(VmView(observed, params.guest), params.template_src) # None
      /\ GetObj(DatastoreView, params.datastore) # None
      /\ DesiredFolder # None
      /\ DesiredPool # None
      /\ pc = "done" )
    => (result.kind = "exit_json" /\ result.changed)

-----------------------------------------------------------------------------
(* Properties of wait_for_task *)

WaitPcs == {"wait_success", "wait_error"}

WaitStep ==
    pc \in WaitPcs =>
       /\ tasks[task].state \notin TerminalStates =>
              (pc' \in WaitPcs /\ result' = result)
       /\ pc' \notin WaitPcs =>
              \/ /\ tasks[task].state = "success"
                 /\ pc = "wait_success" /\ pc' = ret
                 /\ result' = result
              \/ /\ tasks[task].state = "error"
                 /\ pc = "wait_error" /\ pc' = "done"
                 /\ result'.kind = "fail_json"
       /\ (pc = "wait_success" /\ tasks[task].state = "success" /\ pc' # pc)
              => pc' = ret
       /\ (pc = "wait_error" /\ tasks[task].state = "error" /\ pc' # pc)
              => pc' = "done"

\* C7: wait_for_task keeps polling while the task is queued or running and
\* reports nothing meanwhile; it leaves the loop only by returning to its
\* caller with the task in state success or by failing the run with the task
\* in state error, and it does so at the first test that sees that state
C7_WaitLeavesOnTerminalState == [][WaitStep]_vars

C7_Witness ==
    /\ prog = "vsphere_template"
    /\ pc = "reconfigure"
    /\ task = 1
    /\ tasks[1].kind = "RelocateVM_Task"
    /\ tasks[1].state = "success"
    /\ ret = "none"

\* C8: when the polled task ended in error, the failure message names the
\* conflicting object if the fault is a DuplicateName fault, and is exactly the
\* generic message for every other fault
C8_FailureMessage ==
    (pc = "done" /\ task > 0 /\ tasks[task].state = "error")
    => /\ result.kind = "fail_json"
       /\ IF tasks[task].fault = "DuplicateName"
          THEN /\ result.msg = "an object with the name %s already exists"
               /\ result.args = <<params.guest>>
          ELSE /\ result.msg =
                     "an error occurred while waiting for the task to complete"
               /\ result.args = <<>>

C8_Witness ==
    /\ pc = "done"
    /\ task > 0
    /\ tasks[task].kind = "Clone"
    /\ tasks[task].state = "error"
    /\ tasks[task].fault = "DuplicateName"
    /\ result.msg = "an object with the name %s already exists"

\* C9: a task in state error is the last task of the run and the one being
\* waited for; the run can only end in fail_json without changed=true, and no
\* kind of task is submitted twice
C9_TaskFailureIsTerminal ==
    /\ \A i \in 1..Len(tasks) :
          tasks[i].state = "error" =>
             /\ i = Len(tasks)
             /\ i = task
             /\ pc \in WaitPcs \cup {"done"}
             /\ pc = "done" => (result.kind = "fail_json" /\ ~result.changed)
    /\ \A i, j \in 1..Len(tasks) : tasks[i].kind = tasks[j].kind => i = j

C9_Witness ==
    /\ pc = "done"
    /\ Len(tasks) = 1
    /\ tasks[1].kind = "RelocateVM_Task"
    /\ tasks[1].state = "error"
    /\ loc.reconfiguration_required
    /\ result.kind = "fail_json"

RelocationDescriptions ==
    {"Relocate VM from resource pool %s to %s", "Relocate VM from folder %s to %s"}

\* C10: when the relocation succeeded and the reconfiguration then failed, the
\* outcome of the run reports the relocation that was applied
C10_AppliedRelocationReported ==
    ( /\ pc = "done"
      /\ \E i \in Submitted("RelocateVM_Task") : tasks[i].state = "success"
      /\ \E j \in Submitted("ReconfigVM_Task") : tasks[j].state = "error" )
    => \E k \in 1..Len(result.changes) :
           result.changes[k][1] \in RelocationDescriptions

-----------------------------------------------------------------------------
(* Further properties of change_guest *)

DesiredDatastore == GetObj(DatastoreView, params.datastore)

\* the descriptions in a list of changes
Described(changes) == {changes[k][1] : k \in 1..Len(changes)}

\* C11: for an existing guest the datastore never contributes a change: no
\* description mentions it, the relocation spec never carries a datastore, the
\* guest stays on its datastore, and a run in which only the datastore differs
\* ends with changed=false
C11_DatastoreNeverChanged ==
    EntersChangeGuest
    => /\ "Relocate VM from datastore %s to %s" \notin Described(loc.changes)
       /\ loc.relocation_spec.datastore = None
       /\ \A i \in 1..Len(tasks) : tasks[i].relocate.datastore = None
       /\ guest.datastore = observed.datastore
       /\ ( /\ observed.resourcePool.name = DesiredPool.name
            /\ observed.parent.name = DesiredFolder.name
            /\ observed.annotation = params.notes
            /\ observed.numCPU = params.num_cpus
            /\ observed.memoryMB = params.memory_mb
            /\ pc = "done" )
          => (result.kind = "exit_json" /\ ~result.changed /\ tasks = <<>>)

C11_Witness ==
    /\ EntersChangeGuest
    /\ observed.datastore # DesiredDatastore
    /\ observed.resourcePool = DesiredPool
    /\ observed.parent = DesiredFolder
    /\ observed.annotation = params.notes
    /\ observed.numCPU = params.num_cpus
    /\ observed.memoryMB = params.memory_mb
    /\ ~check_mode
    /\ pc = "done"
    /\ result.kind = "exit_json"
    /\ ~result.changed

\* C12: the comparison is by identity of the resolved references: when the
\* guest's resource pool (or folder) is another object than the resolved
\* desired one, a relocation change to the desired object is emitted, also
\* when both objects have the same display name
C12_ChangeDecidedByIdentity ==
    (EntersChangeGuest /\ pc = "gate")
    => /\ observed.resourcePool # DesiredPool =>
              /\ loc.relocation_required
              /\ loc.relocation_spec.pool = DesiredPool
              /\ "Relocate VM from resource pool %s to %s" \in Described(loc.changes)
       /\ observed.parent # DesiredFolder =>
              /\ loc.relocation_required
              /\ loc.relocation_spec.folder = DesiredFolder
              /\ "Relocate VM from folder %s to %s" \in Described(loc.changes)

\* the descriptions of the fields in which the observed guest differs from
\* the desired state (pool and folder by display name)
PendingDescriptions ==
    (IF observed.resourcePool.name # DesiredPool.name
     THEN {"Relocate VM from resource pool %s to %s"} ELSE {})
    \cup (IF observed.parent.name # DesiredFolder.name
          THEN {"Relocate VM from folder %s to %s"} ELSE {})
    \cup (IF observed.annotation # params.notes
          THEN {"Change configured annotation of VM from \"%s\" to \"%s\""}
          ELSE {})
    \cup (IF observed.numCPU # params.num_cpus
          THEN {"Change configured number of CPUs of VM from %d to %d"}
          ELSE {})
    \cup (IF observed.memoryMB # params.memory_mb
          THEN {"Change configured memory in MB of VM from %d to %d"}
          ELSE {})

\* the run ended in the failure of the safety gate (lines 262-266)
BlockedByGate ==
    /\ EntersChangeGuest
    /\ pc = "done"
    /\ result.kind = "fail_json"
    /\ tasks = <<>>

\* C13: when the safety gate blocks a run, its failure message lists exactly
\* one description for every differing field among pool, folder, annotation,
\* CPU count and memory size, not only the hardware changes and not only the
\* first one
C13_GateMessageListsEveryChange ==
    BlockedByGate
    => /\ Described(result.changes) = PendingDescriptions
       /\ Len(result.changes) = Cardinality(PendingDescriptions)
       /\ result.args = <<params.guest>>

C13_Witness ==
    /\ BlockedByGate
    /\ observed.resourcePool.name # DesiredPool.name
    /\ observed.annotation # params.notes
    /\ observed.numCPU # params.num_cpus
    /\ observed.memoryMB # params.memory_mb
    /\ Len(result.changes) = 4

-----------------------------------------------------------------------------
(* Properties of vsphere_migrate_pool *)

\* the path ends with the name, character by character
EndsWith(path, name) ==
    /\ Len(name) <= Len(path)
    /\ SubSeq(path, Len(path) - Len(name) + 1, Len(path)) = name

\* the pool the VM was in when the run started
StartPool == IF migrations = <<>> THEN vmPool ELSE migrations[1].from

\* the run passed the VM and cluster lookups and has ended
MigrateRunEnded ==
    /\ prog = "vsphere_migrate_pool"
    /\ guest.exists
    /\ params.cluster = ClusterName
    /\ pc = "done"

\* C14: when the desired pool name is a suffix of the path of the pool the VM
\* is in, and that pool is listed under the cluster, the run reports
\* changed=false and never calls migrate, for every listing and order
C14_SuffixOfCurrentPoolIsNoChange ==
    ( /\ MigrateRunEnded
      /\ EndsWith(PoolByMor(StartPool).path, params.resource_pool)
      /\ \E i \in 1..Len(rps) : rps[i].mor = StartPool )
    => /\ result.kind = "exit_json"
       /\ ~result.changed
       /\ migrations = <<>>

InSeq(x, seq) == \E k \in 1..Len(seq) : seq[k] = x

\* C15: if no pool path under the cluster ends with the desired pool name,
\* the run ends in a failure, migrate is never called, and the failure names
\* the desired pool and the server
C15_NoMatchFailsNamingPoolAndServer ==
    ( /\ MigrateRunEnded
      /\ \A i \in 1..Len(rps) : ~EndsWith(rps[i].path, params.resource_pool) )
    => /\ result.kind = "fail_json"
       /\ migrations = <<>>
       /\ InSeq(params.resource_pool, result.args)
       /\ InSeq(params.vcenter_hostname, result.args)

\* the name of the pool the VM was in when the run started
StartPoolName == PoolName(PoolByMor(StartPool).path)

\* the listed pools whose path matches the desired name
Matching == {i \in 1..Len(rps) : ReMatchEnd(params.resource_pool, rps[i].path)}

\* the matching pools whose path does not also match the current pool name
Qualifying == {i \in Matching : ~ReMatchEnd(StartPoolName, rps[i].path)}

\* C16 (as claimed): the migration target is the first pool whose path matches
\* the desired name and does not also match the current pool name; a match
\* that also matches the current pool name does not keep a later qualifying
\* match from being selected
C16_FirstQualifyingMatchSelected ==
    (MigrateRunEnded /\ ~check_mode /\ Qualifying # {})
    => /\ Len(migrations) = 1
       /\ migrations[1].mor = rps[Min(Qualifying)].mor

\* C16 (amended): the first pool in iteration order whose path matches the
\* desired name decides the run: if its path does not also match the current
\* pool name it is the migration target, otherwise the run reports
\* changed=false without calling migrate, whatever matches follow it
C16_FirstMatchDecides ==
    (MigrateRunEnded /\ Matching # {})
    => IF Min(Matching) \in Qualifying
       THEN /\ result.kind \in {"exit_json", "exception"}
            /\ result.kind = "exit_json" => result.changed
            /\ IF check_mode THEN migrations = <<>>
               ELSE /\ Len(migrations) = 1
                    /\ migrations[1].mor = rps[Min(Matching)].mor
       ELSE /\ result.kind = "exit_json"
            /\ ~result.changed
            /\ migrations = <<>>

C16_Witness ==
    /\ MigrateRunEnded
    /\ ~check_mode
    /\ Qualifying # {}
    /\ Min(Matching) \notin Qualifying
    /\ result.kind = "exit_json"
    /\ ~result.changed

\* C17: whenever a run ends with changed=false, the pool the VM is in is a
\* pool whose path ends with the desired name
C17_UnchangedOnlyInDesiredPool ==
    (MigrateRunEnded /\ result.kind = "exit_json" /\ ~result.changed)
    => EndsWith(PoolByMor(vmPool).path, params.resource_pool)

-----------------------------------------------------------------------------
(* Properties of the parameter validation of vsphere_template *)

Names(view) == {view[i].name : i \in 1..Len(view)}

TemplateMissing == params.template_src \notin Names(VmView(observed, params.guest))
DatastoreMissing == params.datastore \notin Names(DatastoreView)
FolderMissing == params.folder \notin Names(FolderView)
PoolMissing == params.resource_pool \notin Names(PoolView)

\* C18: if the template, datastore, folder or resource pool of the request
\* cannot be resolved, no Clone, RelocateVM_Task or ReconfigVM_Task is
\* submitted and the run ends in a failure that names the missing object and
\* the server, whether or not the guest exists
C18_UnresolvedObjectFails ==
    ( /\ prog = "vsphere_template"
      /\ TemplateMissing \/ DatastoreMissing \/ FolderMissing \/ PoolMissing )
    => /\ tasks = <<>>
       /\ pc \in {"validate", "done"}
       /\ pc = "done" =>
             /\ result.kind = "fail_json"
             /\ Len(result.args) = 2
             /\ result.args[2] = params.vcenter_hostname
             /\ \/ /\ TemplateMissing
                   /\ result.args[1] = params.template_src
                   /\ result.msg = "template \"%s\" not found on vCenter server at %s"
                \/ /\ DatastoreMissing
                   /\ result.args[1] = params.datastore
                   /\ result.msg = "datastore %s not found on vCenter server at %s"
                \/ /\ FolderMissing
                   /\ result.args[1] = params.folder
                   /\ result.msg = "folder %s not found on vCenter server at %s"
                \/ /\ PoolMissing
                   /\ result.args[1] = params.resource_pool
                   /\ result.msg = "resource_pool %s not found on vCenter server at %s"

C18_Witness ==
    /\ prog = "vsphere_template"
    /\ observed.exists
    /\ observed.numCPU # params.num_cpus
    /\ ~TemplateMissing /\ ~DatastoreMissing /\ ~FolderMissing
    /\ PoolMissing
    /\ ~check_mode
    /\ pc = "done"
    /\ result.kind = "fail_json"

-----------------------------------------------------------------------------
(* Properties of vsphere_tools *)

\* the run of vsphere_tools is for a guest that exists
ToolsRun == prog = "vsphere_tools" /\ observed.exists

\* the run asks for the latest tools and the status read calls for an upgrade
UpgradeDue ==
    /\ params.state = "latest"
    /\ observed.toolsVersionStatus2 \in
          {"guestToolsBlacklisted", "guestToolsNeedUpgrade",
           "guestToolsNotInstalled", "guestToolsSupportedOld",
           "guestToolsTooOld"}

\* C19: UpgradeTools is submitted (once) exactly when the state is latest, the
\* observed status is one of the five upgradable ones and check mode is off;
\* present and absent never submit it, and latest with any other status ends
\* with changed=false
C19_UpgradeOnlyWhenLatestAndOutdated ==
    ToolsRun
    => /\ tasks # <<>> =>
             /\ UpgradeDue /\ ~check_mode
             /\ Len(tasks) = 1
             /\ tasks[1].kind = "UpgradeTools"
       /\ (pc = "done" /\ UpgradeDue /\ ~check_mode) => Len(tasks) = 1
       /\ (pc = "done" /\ params.state = "latest" /\ ~UpgradeDue) =>
             /\ result.kind = "exit_json"
             /\ ~result.changed

C19_Witness ==
    /\ ToolsRun
    /\ params.state = "latest"
    /\ observed.toolsVersionStatus2 = "guestToolsTooOld"
    /\ pc = "done"
    /\ Len(tasks) = 1
    /\ tasks[1].state = "success"
    /\ result.kind = "exit_json"
    /\ result.changed

\* C20: a mismatch between the desired state and the observed status is a
\* failure and never a change: present with guestToolsNotInstalled fails,
\* absent with any other status than guestToolsNotInstalled fails, every other
\* present/absent combination ends with changed=false, and no task is
\* submitted in any of these runs
C20_StateMismatchFails ==
    (ToolsRun /\ params.state \in {"present", "absent"})
    => /\ tasks = <<>>
       /\ pc = "done" =>
             IF \/ /\ params.state = "present"
                   /\ observed.toolsVersionStatus2 = "guestToolsNotInstalled"
                \/ /\ params.state = "absent"
                   /\ observed.toolsVersionStatus2 # "guestToolsNotInstalled"
             THEN /\ result.kind = "fail_json"
                  /\ result.args = <<params.guest, observed.toolsVersionStatus2>>
             ELSE /\ result.kind = "exit_json"
                  /\ ~result.changed

C20_Witness ==
    /\ ToolsRun
    /\ params.state = "absent"
    /\ observed.toolsVersionStatus2 = "guestToolsCurrent"
    /\ ~check_mode
    /\ pc = "done"
    /\ result.kind = "fail_json"

-----------------------------------------------------------------------------
(* The change list of an applied run *)

\* the descriptions change_guest can emit, in the order of its comparisons
DescriptionOrder ==
    << "Relocate VM from resource pool %s to %s",
       "Relocate VM from folder %s to %s",
       "Change configured annotation of VM from \"%s\" to \"%s\"",
       "Change configured number of CPUs of VM from %d to %d",
       "Change configured memory in MB of VM from %d to %d" >>

IsPending(d) == d \in PendingDescriptions

\* change_guest submitted its work and the run ended in exit_json
AppliedChanges ==
    /\ EntersChangeGuest
    /\ ~check_mode
    /\ tasks # <<>>
    /\ pc = "done"
    /\ result.kind = "exit_json"

\* C21: when change_guest applies changes, the result has changed=true and
\* its change list holds exactly one description for every field among pool,
\* folder, annotation, CPU count and memory size that differs, none for a
\* field that is equal, in this fixed order (relocation before
\* reconfiguration)
C21_AppliedChangesListed ==
    AppliedChanges
    => /\ result.changed
       /\ [k \in 1..Len(result.changes) |-> result.changes[k][1]]
              = SelectSeq(DescriptionOrder, IsPending)

C21_Witness ==
    /\ AppliedChanges
    /\ Len(result.changes) = 3
    /\ Len(tasks) = 2
    /\ observed.annotation = params.notes
    /\ observed.memoryMB # params.memory_mb

-----------------------------------------------------------------------------
(* Tasks of one run *)

NonTerminal == {i \in 1..Len(tasks) : tasks[i].state \notin TerminalStates}

\* C23: within one run at most one submitted task is non-terminal at any
\* moment, and a ReconfigVM_Task is submitted only after the RelocateVM_Task
\* of the same run was seen in state success
C23_OneTaskInFlight ==
    /\ Cardinality(NonTerminal) <= 1
    /\ NonTerminal \subseteq {Len(tasks)}
    /\ \A i \in Submitted("RelocateVM_Task") :
          Submitted("ReconfigVM_Task") # {}
          => /\ tasks[i].state = "success"
             /\ \A j \in Submitted("ReconfigVM_Task") : i < j

C23_Witness ==
    /\ Len(tasks) = 2
    /\ tasks[1].kind = "RelocateVM_Task"
    /\ tasks[1].state = "success"
    /\ tasks[2].kind = "ReconfigVM_Task"
    /\ tasks[2].state = "running"
    /\ pc \in WaitPcs

-----------------------------------------------------------------------------
(* What the safety gate lets through *)

NoTaskFailed == \A i \in 1..Len(tasks) : tasks[i].state # "error"

\* C24: the safety gate blocks only "hardware change and poweredOn": with a
\* non-empty change list, if the power state is not poweredOn, or if only
\* pool, folder or annotation differ while powered on, a run outside check
\* mode submits the work and, no task failing, ends with changed=true
\* instead of failing
C24_GateBlocksOnlyHardwareWhenPoweredOn ==
    ( /\ EntersChangeGuest
      /\ ~check_mode
      /\ PendingDescriptions # {}
      /\ PassesGate
      /\ NoTaskFailed
      /\ pc = "done" )
    => /\ tasks # <<>>
       /\ result.kind = "exit_json"
       /\ result.changed

\* the part of C24 the code keeps: what the gate itself lets through when
\* the folder name is equal
C24_FolderEqualPassesGate ==
    ( /\ EntersChangeGuest
      /\ ~check_mode
      /\ PendingDescriptions # {}
      /\ observed.parent.name = DesiredFolder.name
      /\ PassesGate
      /\ NoTaskFailed
      /\ pc = "done" )
    => /\ tasks # <<>>
       /\ result.kind = "exit_json"
       /\ result.changed

\* C25: a folder-only difference gives exactly one relocation change item and
\* needs no shutdown: outside check mode the run submits one RelocateVM_Task
\* with the folder set and no ReconfigVM_Task and, the task succeeding, ends
\* with changed=true in every power state
C25_FolderOnlyChangeRelocates ==
    ( /\ EntersChangeGuest
      /\ ~check_mode
      /\ PendingDescriptions = {"Relocate VM from folder %s to %s"}
      /\ NoTaskFailed
      /\ pc = "done" )
    => /\ Cardinality(Submitted("RelocateVM_Task")) = 1
       /\ \A i \in Submitted("RelocateVM_Task") :
             tasks[i].relocate.folder = DesiredFolder
       /\ Submitted("ReconfigVM_Task") = {}
       /\ result.kind = "exit_json"
       /\ result.changed
       /\ Len(result.changes) = 1

-----------------------------------------------------------------------------
(* change_guest ends the run *)

ClonePcs == {"clone", "clone_done", "clone_exit"}

\* a step of a run that has reported its result
AfterResultStep ==
    (result.kind # "none" /\ run' = run) => (result' = result /\ pc' = pc)

\* C28: a CloneVM_Task is submitted only when the guest lookup found no VM:
\* for an existing guest every path through change_guest ends the run, so the
\* run never continues into the clone path, and it reports exactly one result
C28_ChangeGuestEndsTheRun ==
    /\ [](prog = "vsphere_template" /\ observed.exists
             => /\ Submitted("Clone") = {}
                /\ pc \notin ClonePcs)
    /\ [][AfterResultStep]_vars

C28_Witness ==
    /\ EntersChangeGuest
    /\ ~check_mode
    /\ pc = "done"
    /\ result.kind = "exit_json"
    /\ result.changed
    /\ Len(tasks) = 2

-----------------------------------------------------------------------------
(* The target of a migration *)

\* C29: migrate_pool never migrates the VM into the pool it is already in:
\* whenever migrate is called, the path of the target pool does not end with
\* the name of the VM's current pool, hence the target is another pool
C29_NeverMigratesIntoOwnPool ==
    \A i \in 1..Len(migrations) :
       /\ ~EndsWith(PoolByMor(migrations[i].mor).path,
                    PoolName(PoolByMor(migrations[i].from).path))
       /\ migrations[i].mor # migrations[i].from

-----------------------------------------------------------------------------
(* The reported tools status *)

\* C30: the vm_tools_status fact of a vsphere_tools run is always the status
\* read when the run started: after a successful UpgradeTools_Task the run
\* still reports the status from before the upgrade
C30_ReportsStatusReadAtStart ==
    (ToolsRun /\ pc = "done" /\ result.kind = "exit_json")
    => result.facts.vm_tools_status = observed.toolsVersionStatus2

C30_Witness ==
    /\ ToolsRun
    /\ pc = "done"
    /\ result.kind = "exit_json"
    /\ Len(tasks) = 1
    /\ tasks[1].state = "success"
    /\ guest.toolsVersionStatus2 # observed.toolsVersionStatus2
    /\ result.facts.vm_tools_status = observed.toolsVersionStatus2

-----------------------------------------------------------------------------
(* Convergence of a second run *)

\* the previous run of migrate_pool migrated the VM synchronously and
\* reported success, and the current run has ended
SecondRunAfterMigration ==
    /\ prog = "vsphere_migrate_pool"
    /\ run > 1
    /\ ~check_mode
    /\ params.sync
    /\ prev.kind = "exit_json"
    /\ prev.changed
    /\ pc = "done"

\* C26: pool migration converges: after a run of migrate_pool that migrated
\* the VM (sync, outside check mode, migration succeeded), the next run with
\* the same parameters, inventory and iteration order reports changed=false
\* and does not call migrate again
C26_MigrationConverges ==
    SecondRunAfterMigration
    => /\ migrations = <<>>
       /\ result.kind = "exit_json"
       /\ ~result.changed

\* the part of C26 the code keeps: the second run converges when the name of
\* the pool the VM was moved to has no regular-expression quantifier
C26_LiteralNameConverges ==
    (SecondRunAfterMigration /\ ~InSeq("+", PoolName(PoolByMor(StartPool).path)))
    => /\ migrations = <<>>
       /\ result.kind = "exit_json"
       /\ ~result.changed

\* the previous run of vsphere_template changed an existing guest outside
\* check mode and reported success
SecondRunAfterChange ==
    /\ prog = "vsphere_template"
    /\ run > 1
    /\ ~check_mode
    /\ prev.kind = "exit_json"
    /\ prev.changed
    /\ "vm %s has been created" \notin Described(prev.changes)

\* C27: reconciliation converges: after a run of vsphere_template for an
\* existing guest that ended with changed=true outside check mode (its tasks
\* succeeded and the backend applied them), the next run with the same
\* desired specification submits no task and reports changed=false
C27_ReconciliationConverges ==
    SecondRunAfterChange
    => /\ tasks = <<>>
       /\ pc = "done" => /\ result.kind = "exit_json"
                         /\ ~result.changed
                         /\ result.changes = <<>>

C27_Witness ==
    /\ SecondRunAfterChange
    /\ Len(prev.changes) = 3
    /\ pc = "done"
    /\ result.kind = "exit_json"
    /\ ~result.changed

-----------------------------------------------------------------------------
(* Termination of wait_for_task *)

\* a step of the process of a module that waits for backend tasks
\* (vsphere_template, vsphere_tools); the steps of the backend and the restart
\* of the play are not steps of the process
ProgramStep ==
    \/ TemplateValidate
    \/ TemplateLookupGuest
    \/ ChangeGuestDiff
    \/ ChangeGuestGate
    \/ ChangeGuestRelocate
    \/ ChangeGuestReconfigure
    \/ ChangeGuestExit
    \/ TemplateClone
    \/ TemplateCloneDone
    \/ TemplateCloneExit
    \/ WaitCheckSuccess
    \/ WaitCheckError
    \/ ToolsMain
    \/ ToolsUpgraded
    \/ ToolsExit

\* the runs of the two modules that call wait_for_task
WaitInit == Init /\ prog # "vsphere_migrate_pool"

WaitNext ==
    \/ ProgramStep
    \/ BackendStart
    \/ BackendSucceed
    \/ BackendFail
    \/ Rerun

\* the process keeps executing until it exits; nothing is assumed of the
\* backend, whose tasks may stay queued or running forever
FairSpec == WaitInit /\ [][WaitNext]_vars /\ WF_vars(ProgramStep)

\* the run is inside wait_for_task and the task has not ended
WaitingOnOpenTask == pc \in WaitPcs /\ tasks[task].state \notin TerminalStates

\* while the task has not ended, no step returns from the wait, reports a
\* result or gives the wait up for another task
KeepsWaitingStep ==
    (WaitingOnOpenTask /\ tasks'[task].state \notin TerminalStates)
    => /\ pc' \in WaitPcs
       /\ task' = task
       /\ result'.kind = "none"

\* C22: wait_for_task has no timeout and no cancellation: a wait whose task
\* has reached success or error ends, and the run ends unless one of its
\* tasks stays non-terminal forever; while the state of the task is
\* non-terminal the wait does not return and the run reports no outcome
C22_WaitEndsOnlyWithTheTask ==
    /\ (pc \in WaitPcs /\ tasks[task].state \in TerminalStates) ~> (pc \notin WaitPcs)
    /\ [](<>(pc = "done") \/ <>[]WaitingOnOpenTask)
    /\ [][KeepsWaitingStep]_vars

C22_Witness ==
    /\ pc = "wait_error"
    /\ tasks[task].state = "error"
    /\ tasks[task].kind = "UpgradeTools"
    /\ result.kind = "none"

====
